---- MODULE Spec2Model ----
(***************************************************************************)
(* Model of the NAD amplifier media-player platform of ha-nadtcp.          *)
(*                                                                         *)
(* Two variants of the platform live in the repository; an installation    *)
(* configures one of them (variable variant):                              *)
(*   "protocol": components/media_player/nadtcp2.py, which owns the        *)
(*               connect / reconnect logic itself;                         *)
(*   "client":   components/nadtcp2/media_player.py, which delegates the   *)
(*               connection to the nadtcp client object (names with b_).   *)
(*                                                                         *)
(* The asyncio event loop, the Home Assistant core and the nadtcp library  *)
(* are the environment: the loop runs scheduled jobs in FIFO order, fires  *)
(* call_later timers no earlier than their delay, and a transport reports  *)
(* its loss once, through the disconnect callback, after it failed or was  *)
(* closed.  Time advances Quantum units at a time through Tick.            *)
(***************************************************************************)
EXTENDS Integers, Sequences, FiniteSets, TLC

\* ---------------------------------------------------------------- bounds
Quantum == 5
MaxTicks == 2
MaxJobs == 3
MaxTimers == 2
MaxAttempts == 2
MaxConns == 2
MaxNadVol == 1
MaxCalls == 2

\* ------------------------------------------------------ program constants
CONNECTION_TIMEOUT == 10
DEFAULT_RECONNECT_INTERVAL == 10
DEFAULT_VOLUME_STEP == 4

None == "None"
MSG_ON == "On"
MSG_OFF == "Off"
MSG_POWER == "Main.Power"
MSG_VOLUME == "Main.Volume"
MSG_MUTE == "Main.Mute"
MSG_SOURCE == "Main.Source"
MSG_MAIN == "Main"
MSG_MODEL == "Main.Model"

STATE_ON == "on"
STATE_OFF == "off"
STATE_UNKNOWN == "unknown"

CMD_POWER == "Power"
CMD_VOLUME == "Volume"
CMD_MUTE == "Mute"
CMD_SOURCE == "Source"

\* ------------------------------------------------------------ input sets
Intervals == {-1} \cup {q * Quantum : q \in 0 .. MaxTicks}
NadVols == -1 .. MaxNadVol
VolumeSteps == {1, 2}
Sources == {"BT"}
ConnIds == 1 .. MaxConns
ConnectErrors == {"ConnectionRefusedError", "TimeoutError", "OSError"}

VARIABLES
    variant,         \* which platform module is configured
    \* configuration (fixed at construction)
    reconnect_interval, min_vol, max_vol, volume_step,
    \* host
    hassState,       \* hass.state: "not_running", "running" or "stopping"
    stopListeners,   \* transports a registered EVENT_HOMEASSISTANT_STOP listener will close
    pendingClose,    \* listeners fired by the stop event that have not run yet
    \* event loop
    jobs,            \* FIFO of scheduled jobs: "connect" and "update"
    timers,          \* remaining delay of each pending call_later(reconnect)
    attempts,        \* age of each connect() suspended in create_nad_connection
    openT,           \* established transports
    closingT,        \* transports that failed or were closed, loss not yet reported
    \* NADDevice, protocol-callback variant
    added, protocol, power, muted, volume, source,
    \* NADDevice, client-library variant
    b_client, b_state, b_muted, b_volume, b_source,
    b_listeners,     \* the listen_once registrations of connect and disconnect
    b_pending,       \* listeners fired by their event that have not run yet
    b_connecting,    \* connect(event) is suspended in client.connect()
    b_calls,         \* how often client.connect() and client.disconnect() were called
    b_connected,     \* the client's connection state, owned by the nadtcp library
    \* what the last handler did: calls made, exception raised, notifications
    out,
    \* clocks of the last connectivity failure
    lastCause,       \* "none", "failed" (connect failure) or "lost" (disconnect)
    elapsed,         \* time since lastCause happened, up to reconnect_interval
    attemptsSince    \* connection attempts started since lastCause happened

config == <<variant, reconnect_interval, min_vol, max_vol, volume_step>>
loop == <<jobs, timers, attempts, openT, closingT>>
dev == <<power, muted, volume, source>>
clocks == <<lastCause, elapsed, attemptsSince>>
a_host == <<stopListeners, pendingClose>>
machine == <<a_host, loop, added, protocol, clocks>>
a_vars == <<machine, dev>>
b_dev == <<b_state, b_muted, b_volume, b_source>>
b_life == <<b_client, b_listeners, b_pending, b_connecting, b_calls, b_connected>>
b_vars == <<b_life, b_dev>>
vars == <<config, hassState, a_vars, b_vars, out>>

\* ---------------------------------------------------------------- helpers
Min(a, b) == IF a < b THEN a ELSE b

Max(a, b) == IF a < b THEN b ELSE a

MinOf(S) == CHOOSE x \in S : \A y \in S : x <= y

RemoveAt(s, i) == [j \in 1 .. (Len(s) - 1) |-> IF j < i THEN s[j] ELSE s[j + 1]]

RECURSIVE GCD(_, _)
GCD(a, b) == IF b = 0 THEN a ELSE GCD(b, a % b)

Abs(a) == IF a < 0 THEN -a ELSE a

\* the rational n/d, d > 0, in lowest terms: the Python floats of this model
\* are fractions of small integers, where float arithmetic is off by far less
\* than the 1/2 that decides a rounding
Rat(n, d) == LET g == GCD(Abs(n), d) IN [n |-> n \div g, d |-> d \div g]

Zero == Rat(0, 1)

One == Rat(1, 1)

\* Python 3 round(n/d), d > 0: the nearest integer, ties to the even one
PyRound(n, d) ==
    LET f == n \div d
        r == n % d
    IN  IF 2 * r < d THEN f
        ELSE IF 2 * r > d THEN f + 1
        ELSE IF f % 2 = 0 THEN f ELSE f + 1

\* an optional value: None is the empty tuple
Nothing == <<>>

Some(x) == <<x>>

\* the volume levels (0..1) the host asks for
Levels == {Rat(0, 1), Rat(1, 2), Rat(1, 1)}

NoOut == [op |-> "none", sent |-> <<>>, raised |-> FALSE, notified |-> 0]

\* what a command handler did: the calls it made on the protocol or client
Did(op, calls) == [op |-> op, sent |-> calls, raised |-> FALSE, notified |-> 0]

\* a handler that raised before calling anything
Raised(op) == [op |-> op, sent |-> <<>>, raised |-> TRUE, notified |-> 0]

Call(f, key, val) == [f |-> f, key |-> key, val |-> val]

\* ------------------------------------------------------------------ Init
\* PLATFORM_SCHEMA: the four numbers are any int.  Each variant draws the
\* ones its code reads; the others keep a fixed value.
InitConfig(intervals) ==
    /\ variant \in {"protocol", "client"}
    /\ IF variant = "protocol"
       THEN /\ reconnect_interval \in intervals
            /\ min_vol = MinOf(NadVols)
            /\ max_vol = MaxNadVol
            /\ volume_step = DEFAULT_VOLUME_STEP
       ELSE /\ reconnect_interval = DEFAULT_RECONNECT_INTERVAL
            /\ min_vol \in NadVols
            /\ max_vol \in NadVols
            /\ volume_step \in VolumeSteps

\* the host and its event loop before the platform is set up.  Only the
\* client-library variant reads whether the host has started.
InitLoop ==
    /\ hassState \in IF variant = "protocol" THEN {"running"}
                     ELSE {"not_running", "running"}
    /\ stopListeners = {}
    /\ pendingClose = {}
    /\ jobs = <<>>
    /\ timers = <<>>
    /\ attempts = <<>>
    /\ openT = {}
    /\ closingT = {}

\* NADDevice.__init__, protocol-callback variant
InitDevice ==
    /\ added = FALSE
    /\ protocol = Nothing
    /\ power = None
    /\ muted = None
    /\ volume = Nothing
    /\ source = None

\* NADDevice.__init__, client-library variant
b_InitDevice ==
    /\ b_client = None
    /\ b_state = STATE_UNKNOWN
    /\ b_muted = Nothing
    /\ b_volume = Nothing
    /\ b_source = None
    /\ b_listeners = {}
    /\ b_pending = {}
    /\ b_connecting = FALSE
    /\ b_calls = [connect |-> 0, disconnect |-> 0]
    /\ b_connected = FALSE

InitClocks ==
    /\ lastCause = "none"
    /\ elapsed = 0
    /\ attemptsSince = 0

InitWith(intervals) ==
    /\ InitConfig(intervals)
    /\ InitLoop
    /\ InitDevice
    /\ b_InitDevice
    /\ InitClocks
    /\ out = NoOut

\* --------------------------------- NADDevice, protocol-callback variant
is_connected == protocol # Nothing

\* a reconnect that also forgets the last known device state
set_protocol_invalidate(p) ==
    /\ protocol' = p
    /\ power' = None
    /\ muted' = None
    /\ volume' = Nothing
    /\ source' = None

\* set_protocol(protocol): nothing but the protocol reference changes
set_protocol(p) ==
    /\ protocol' = p
    /\ UNCHANGED dev

\* a connectivity failure restarts the clocks
Restart(cause) ==
    /\ lastCause' = cause
    /\ elapsed' = 0
    /\ attemptsSince' = 0

\* a reconnect that keeps the protocol of the lost connection
reconnect_keep_protocol ==
    /\ UNCHANGED <<protocol, dev>>
    /\ jobs' = IF hassState # "stopping" THEN Append(jobs, "connect") ELSE jobs

\* a reconnect that gives up
reconnect_no_retry ==
    /\ set_protocol(Nothing)
    /\ jobs' = jobs

\* a reconnect that schedules connect twice
reconnect_twice ==
    /\ set_protocol(Nothing)
    /\ jobs' = IF hassState # "stopping"
               THEN Append(Append(jobs, "connect"), "connect") ELSE jobs

\* reconnect(exc), the disconnect callback and the call_later callback
reconnect ==
    /\ set_protocol(Nothing)
    /\ jobs' = IF hassState # "stopping" THEN Append(jobs, "connect") ELSE jobs

\* async_added_to_hass: defines the closures and schedules connect.  The
\* host sets its platforms up before it is asked to stop.
async_added_to_hass ==
    /\ variant = "protocol"
    /\ hassState # "stopping"
    /\ ~added
    /\ Len(jobs) < MaxJobs
    /\ added' = TRUE
    /\ jobs' = Append(jobs, "connect")
    /\ out' = NoOut
    /\ UNCHANGED <<config, hassState, a_host, timers, attempts, openT, closingT,
                   protocol, dev, clocks, b_vars>>

\* connect() up to its yield: the connection attempt starts
ConnectStart ==
    /\ jobs # <<>>
    /\ Head(jobs) = "connect"
    /\ Len(attempts) < MaxAttempts
    /\ jobs' = Tail(jobs)
    /\ attempts' = Append(attempts, 0)
    /\ attemptsSince' = Min(attemptsSince + 1, 2)
    /\ out' = NoOut
    /\ UNCHANGED <<config, hassState, a_host, timers, openT, closingT, added,
                   protocol, dev, lastCause, elapsed, b_vars>>

\* the transports still referred to: a new one gets another identity
InUse ==
    openT \cup closingT \cup stopListeners \cup pendingClose
        \cup {protocol[j] : j \in DOMAIN protocol}

\* connect() resumed with a transport and a protocol: the rest of connect().
\* A listener registered after the stop event has fired is never called.
ConnectSucceed(i) ==
    /\ ConnIds \ InUse # {}
    /\ Len(jobs) < MaxJobs
    /\ LET t == MinOf(ConnIds \ InUse)
       IN  /\ attempts' = RemoveAt(attempts, i)
           /\ openT' = openT \cup {t}
           /\ set_protocol(Some(t))
           /\ jobs' = Append(jobs, "update")
           /\ stopListeners' = stopListeners \cup {t}
    /\ out' = NoOut
    /\ UNCHANGED <<config, hassState, pendingClose, timers, closingT, added,
                   clocks, b_vars>>

\* a connect() that retries without waiting for the reconnect interval
ConnectFail_no_delay(i, exc) ==
    /\ exc = "TimeoutError" => attempts[i] >= CONNECTION_TIMEOUT
    /\ Len(timers) < MaxTimers
    /\ attempts' = RemoveAt(attempts, i)
    /\ timers' = Append(timers, 0)
    /\ Restart("failed")
    /\ out' = NoOut
    /\ UNCHANGED <<config, hassState, a_host, jobs, openT, closingT, added,
                   protocol, dev, b_vars>>

\* connect() resumed with an exception of the except clause
ConnectFail(i, exc) ==
    /\ exc = "TimeoutError" => attempts[i] >= CONNECTION_TIMEOUT
    /\ Len(timers) < MaxTimers
    /\ attempts' = RemoveAt(attempts, i)
    /\ timers' = Append(timers, Max(reconnect_interval, 0))
    /\ Restart("failed")
    /\ out' = NoOut
    /\ UNCHANGED <<config, hassState, a_host, jobs, openT, closingT, added,
                   protocol, dev, b_vars>>

\* the loop runs a call_later(reconnect) whose delay has passed
TimerFire(i) ==
    /\ timers[i] = 0
    /\ Len(jobs) < MaxJobs
    /\ timers' = RemoveAt(timers, i)
    /\ reconnect
    /\ out' = NoOut
    /\ UNCHANGED <<config, hassState, a_host, attempts, openT, closingT, added,
                   clocks, b_vars>>

\* a read or write fails or the peer closes: the transport starts closing
TransportFail(t) ==
    /\ t \in openT
    /\ openT' = openT \ {t}
    /\ closingT' = closingT \cup {t}
    /\ out' = NoOut
    /\ UNCHANGED <<config, hassState, a_host, jobs, timers, attempts, added,
                   protocol, dev, clocks, b_vars>>

\* the protocol of a closing transport calls disconnect_callback; the stop
\* listener of a transport that is gone does nothing any more
ConnectionLost(t) ==
    /\ t \in closingT
    /\ Len(jobs) < MaxJobs
    /\ closingT' = closingT \ {t}
    /\ stopListeners' = stopListeners \ {t}
    /\ reconnect
    /\ Restart("lost")
    /\ out' = NoOut
    /\ UNCHANGED <<config, hassState, pendingClose, timers, attempts, openT,
                   added, b_vars>>

\* a fired stop listener runs: lambda x: transport.close()
StopListener(t) ==
    /\ t \in pendingClose
    /\ pendingClose' = pendingClose \ {t}
    /\ openT' = openT \ {t}
    /\ closingT' = IF t \in openT THEN closingT \cup {t} ELSE closingT
    /\ out' = NoOut
    /\ UNCHANGED <<config, hassState, stopListeners, jobs, timers, attempts,
                   added, protocol, dev, clocks, b_vars>>

\* time passes but no connection attempt ever times out
Tick_no_timeout ==
    /\ \/ \E i \in 1 .. Len(attempts) : attempts[i] < CONNECTION_TIMEOUT
       \/ \E i \in 1 .. Len(timers) : timers[i] > 0
       \/ lastCause # "none" /\ elapsed < reconnect_interval
    /\ attempts' = attempts
    /\ timers' = [i \in 1 .. Len(timers) |-> Max(timers[i] - Quantum, 0)]
    /\ elapsed' = IF lastCause = "none" THEN 0
                  ELSE Min(elapsed + Quantum, Max(reconnect_interval, 0))
    /\ out' = NoOut
    /\ UNCHANGED <<config, hassState, a_host, jobs, openT, closingT, added,
                   protocol, dev, lastCause, attemptsSince, b_vars>>

\* Quantum units of time pass
Tick ==
    /\ \/ \E i \in 1 .. Len(attempts) : attempts[i] < CONNECTION_TIMEOUT
       \/ \E i \in 1 .. Len(timers) : timers[i] > 0
       \/ lastCause # "none" /\ elapsed < reconnect_interval
    /\ attempts' = [i \in 1 .. Len(attempts) |->
                        Min(attempts[i] + Quantum, CONNECTION_TIMEOUT)]
    /\ timers' = [i \in 1 .. Len(timers) |-> Max(timers[i] - Quantum, 0)]
    /\ elapsed' = IF lastCause = "none" THEN 0
                  ELSE Min(elapsed + Quantum, Max(reconnect_interval, 0))
    /\ out' = NoOut
    /\ UNCHANGED <<config, hassState, a_host, jobs, openT, closingT, added,
                   protocol, dev, lastCause, attemptsSince, b_vars>>

MessageKeys == {MSG_VOLUME, MSG_POWER, MSG_MUTE, MSG_SOURCE, MSG_MODEL}

MessageValues(key) ==
    IF key = MSG_VOLUME THEN {Some(v) : v \in NadVols}
    ELSE IF key = MSG_SOURCE THEN Sources
    ELSE IF key = MSG_MODEL THEN {"C338"}
    ELSE {MSG_ON, MSG_OFF}

\* a message_received that files the power value under the mute field
message_received_misfiled(key, value) ==
    /\ added
    /\ openT # {}
    /\ volume' = IF key = MSG_VOLUME THEN value ELSE volume
    /\ muted' = IF key \in {MSG_POWER, MSG_MUTE} THEN value ELSE muted
    /\ source' = IF key = MSG_SOURCE THEN value ELSE source
    /\ out' = [op |-> "message_received", sent |-> <<>>, raised |-> FALSE,
               notified |-> 1]
    /\ UNCHANGED <<config, hassState, machine, power, b_vars>>

\* NADDevice.message_received(key, value), called by the protocol of an
\* established transport through the message_received closure
message_received(key, value) ==
    /\ added
    /\ openT # {}
    /\ volume' = IF key = MSG_VOLUME THEN value ELSE volume
    /\ power' = IF key = MSG_POWER THEN value ELSE power
    /\ muted' = IF key = MSG_MUTE THEN value ELSE muted
    /\ source' = IF key = MSG_SOURCE THEN value ELSE source
    /\ out' = [op |-> "message_received", sent |-> <<>>, raised |-> FALSE,
               notified |-> 1]
    /\ UNCHANGED <<config, hassState, machine, b_vars>>

async_turn_off ==
    /\ added
    /\ out' = Did("turn_off",
                  IF is_connected THEN <<Call("set_value", MSG_POWER, MSG_OFF)>>
                  ELSE <<>>)
    /\ UNCHANGED <<config, hassState, a_vars, b_vars>>

async_turn_on ==
    /\ added
    /\ out' = Did("turn_on",
                  IF is_connected THEN <<Call("set_value", MSG_POWER, MSG_ON)>>
                  ELSE <<>>)
    /\ UNCHANGED <<config, hassState, a_vars, b_vars>>

async_volume_up ==
    /\ added
    /\ out' = Did("volume_up",
                  IF is_connected THEN <<Call("cycle_up", MSG_VOLUME, Nothing)>>
                  ELSE <<>>)
    /\ UNCHANGED <<config, hassState, a_vars, b_vars>>

async_volume_down ==
    /\ added
    /\ out' = Did("volume_down",
                  IF is_connected THEN <<Call("cycle_down", MSG_VOLUME, Nothing)>>
                  ELSE <<>>)
    /\ UNCHANGED <<config, hassState, a_vars, b_vars>>

\* int(round(internal_vol * (max_vol - min_vol) + min_vol))
internal_vol_to_nad_vol(internal_vol) ==
    PyRound(internal_vol.n * (max_vol - min_vol) + min_vol * internal_vol.d,
            internal_vol.d)

async_set_volume_level(level) ==
    /\ added
    /\ out' = Did("set_volume_level",
                  IF is_connected
                  THEN <<Call("set_value", MSG_VOLUME,
                              Some(internal_vol_to_nad_vol(level)))>>
                  ELSE <<>>)
    /\ UNCHANGED <<config, hassState, a_vars, b_vars>>

async_mute_volume(mute) ==
    /\ added
    /\ out' = Did("mute_volume",
                  IF is_connected
                  THEN <<Call("set_value", MSG_MUTE,
                              IF mute THEN MSG_ON ELSE MSG_OFF)>>
                  ELSE <<>>)
    /\ UNCHANGED <<config, hassState, a_vars, b_vars>>

async_select_source(src) ==
    /\ added
    /\ out' = Did("select_source",
                  IF is_connected THEN <<Call("set_value", MSG_SOURCE, src)>>
                  ELSE <<>>)
    /\ UNCHANGED <<config, hassState, a_vars, b_vars>>

\* an async_update that queries without asking whether it is connected
async_update_unguarded ==
    Did("update", <<Call("get_value", MSG_MAIN, Nothing)>>)

\* async_update: query all main-zone values
async_update ==
    Did("update",
        IF is_connected THEN <<Call("get_value", MSG_MAIN, Nothing)>> ELSE <<>>)

\* the loop runs the async_update job that connect() scheduled
UpdateJob ==
    /\ jobs # <<>>
    /\ Head(jobs) = "update"
    /\ jobs' = Tail(jobs)
    /\ out' = async_update
    /\ UNCHANGED <<config, hassState, a_host, timers, attempts, openT, closingT,
                   added, protocol, dev, clocks, b_vars>>

\* the host asks the entity to update itself
UpdateEntity ==
    /\ added
    /\ out' = async_update
    /\ UNCHANGED <<config, hassState, a_vars, b_vars>>

\* ----------------------------------------------------------------- host
\* hass starts: EVENT_HOMEASSISTANT_START fires its listen_once listeners
HassStart ==
    /\ hassState = "not_running"
    /\ hassState' = "running"
    /\ b_pending' = b_pending \cup (b_listeners \cap {"start"})
    /\ b_listeners' = b_listeners \ {"start"}
    /\ out' = NoOut
    /\ UNCHANGED <<config, a_vars, b_client, b_connecting, b_calls, b_connected,
                   b_dev>>

\* hass stops: the state becomes stopping and EVENT_HOMEASSISTANT_STOP fires
\* its listen_once listeners
HassStop ==
    /\ hassState = "running"
    /\ hassState' = "stopping"
    /\ pendingClose' = stopListeners
    /\ stopListeners' = {}
    /\ b_pending' = b_pending \cup (b_listeners \cap {"stop"})
    /\ b_listeners' = b_listeners \ {"stop"}
    /\ out' = NoOut
    /\ UNCHANGED <<config, loop, added, protocol, dev, clocks, b_client,
                   b_connecting, b_calls, b_connected, b_dev>>

\* ------------------------------------ NADDevice, client-library variant
\* nad_vol_to_internal_vol raises ZeroDivisionError
DivisionByZero(nad_vol) ==
    /\ nad_vol # Nothing
    /\ ~(nad_vol[1] < min_vol)
    /\ ~(nad_vol[1] > max_vol)
    /\ max_vol - min_vol = 0

\* nad_vol_to_internal_vol(nad_vol), where it does not raise
nad_vol_to_internal_vol(nad_vol) ==
    IF nad_vol = Nothing THEN Zero
    ELSE IF nad_vol[1] < min_vol THEN Zero
    ELSE IF nad_vol[1] > max_vol THEN One
    ELSE Rat(nad_vol[1] - min_vol, max_vol - min_vol)

\* the state snapshots the client hands to state_changed_cb: a dict over
\* some of the four keys (the fields of absent keys are not read)
CmdKeys == {CMD_POWER, CMD_VOLUME, CMD_MUTE, CMD_SOURCE}

Snapshots ==
    {s \in [keys : SUBSET CmdKeys, power : BOOLEAN, volume : NadVols,
            mute : BOOLEAN, source : Sources] :
        /\ CMD_POWER \notin s.keys => s.power = FALSE
        /\ CMD_VOLUME \notin s.keys => s.volume = MinOf(NadVols)
        /\ CMD_MUTE \notin s.keys => s.mute = FALSE
        /\ CMD_SOURCE \notin s.keys => s.source = CHOOSE x \in Sources : TRUE}

\* a handler that keeps the last known power state when the snapshot
\* carries no power key
handle_state_changed_keep_power(state) ==
    /\ b_client # None
    /\ b_calls.connect > 0
    /\ b_state' = IF CMD_POWER \in state.keys
                  THEN (IF state.power THEN STATE_ON ELSE STATE_OFF)
                  ELSE b_state
    /\ IF CMD_VOLUME \in state.keys /\ DivisionByZero(Some(state.volume))
       THEN /\ out' = Raised("handle_state_changed")
            /\ UNCHANGED <<b_volume, b_muted, b_source>>
       ELSE /\ b_volume' = IF CMD_VOLUME \in state.keys
                           THEN Some(nad_vol_to_internal_vol(Some(state.volume)))
                           ELSE b_volume
            /\ b_muted' = IF CMD_MUTE \in state.keys THEN Some(state.mute)
                          ELSE b_muted
            /\ b_source' = IF CMD_SOURCE \in state.keys THEN state.source
                           ELSE b_source
            /\ out' = [op |-> "handle_state_changed", sent |-> <<>>,
                       raised |-> FALSE, notified |-> 1]
    /\ UNCHANGED <<config, hassState, a_vars, b_life>>

\* handle_state_changed(state), connected to SIGNAL_NAD_STATE_RECEIVED; a
\* ZeroDivisionError of the conversion leaves the handler after the
\* assignment of _state
handle_state_changed(state) ==
    /\ b_client # None
    /\ b_calls.connect > 0
    /\ b_state' = IF CMD_POWER \in state.keys
                  THEN (IF state.power THEN STATE_ON ELSE STATE_OFF)
                  ELSE STATE_UNKNOWN
    /\ IF CMD_VOLUME \in state.keys /\ DivisionByZero(Some(state.volume))
       THEN /\ out' = Raised("handle_state_changed")
            /\ UNCHANGED <<b_volume, b_muted, b_source>>
       ELSE /\ b_volume' = IF CMD_VOLUME \in state.keys
                           THEN Some(nad_vol_to_internal_vol(Some(state.volume)))
                           ELSE b_volume
            /\ b_muted' = IF CMD_MUTE \in state.keys THEN Some(state.mute)
                          ELSE b_muted
            /\ b_source' = IF CMD_SOURCE \in state.keys THEN state.source
                           ELSE b_source
            /\ out' = [op |-> "handle_state_changed", sent |-> <<>>,
                       raised |-> FALSE, notified |-> 1]
    /\ UNCHANGED <<config, hassState, a_vars, b_life>>

\* connect(event) up to its await: client.connect() is called
b_connect_call ==
    /\ b_calls.connect < MaxCalls
    /\ b_calls' = [b_calls EXCEPT !.connect = @ + 1]
    /\ b_connecting' = TRUE

\* async_added_to_hass: creates the client, connects the dispatcher, and
\* connects now or on EVENT_HOMEASSISTANT_START
b_async_added_to_hass ==
    /\ variant = "client"
    /\ hassState # "stopping"
    /\ b_client = None
    /\ b_client' = "NADReceiverTCPC338"
    /\ IF hassState = "running"
       THEN b_connect_call /\ UNCHANGED b_listeners
       ELSE b_listeners' = b_listeners \cup {"start"}
            /\ UNCHANGED <<b_calls, b_connecting>>
    /\ out' = NoOut
    /\ UNCHANGED <<config, hassState, a_vars, b_pending, b_connected, b_dev>>

\* a start listener that stays registered after it has run
b_connect_keep_listener ==
    /\ "start" \in b_pending
    /\ b_pending' = b_pending
    /\ b_connect_call
    /\ out' = NoOut
    /\ UNCHANGED <<config, hassState, a_vars, b_client, b_listeners,
                   b_connected, b_dev>>

\* the start listener runs connect(event)
b_connect ==
    /\ "start" \in b_pending
    /\ b_pending' = b_pending \ {"start"}
    /\ b_connect_call
    /\ out' = NoOut
    /\ UNCHANGED <<config, hassState, a_vars, b_client, b_listeners,
                   b_connected, b_dev>>

\* client.connect() returns: connect(event) registers disconnect on stop
b_connect_return ==
    /\ b_connecting
    /\ b_connecting' = FALSE
    /\ b_listeners' = b_listeners \cup {"stop"}
    /\ out' = NoOut
    /\ UNCHANGED <<config, hassState, a_vars, b_client, b_pending, b_calls,
                   b_connected, b_dev>>

\* the stop listener runs disconnect(event): client.disconnect()
b_disconnect ==
    /\ "stop" \in b_pending
    /\ b_calls.disconnect < MaxCalls
    /\ b_pending' = b_pending \ {"stop"}
    /\ b_calls' = [b_calls EXCEPT !.disconnect = @ + 1]
    /\ b_connected' = FALSE
    /\ out' = NoOut
    /\ UNCHANGED <<config, hassState, a_vars, b_client, b_listeners,
                   b_connecting, b_dev>>

\* the client, once asked to connect and until asked to disconnect,
\* establishes its connection
ClientConnected ==
    /\ b_calls.connect > 0
    /\ b_calls.disconnect = 0
    /\ ~b_connected
    /\ b_connected' = TRUE
    /\ out' = NoOut
    /\ UNCHANGED <<config, hassState, a_vars, b_client, b_listeners, b_pending,
                   b_connecting, b_calls, b_dev>>

\* the client loses its connection
ClientDisconnected ==
    /\ b_connected
    /\ b_connected' = FALSE
    /\ out' = NoOut
    /\ UNCHANGED <<config, hassState, a_vars, b_client, b_listeners, b_pending,
                   b_connecting, b_calls, b_dev>>

\* what the client writes to its socket for the calls made on it: send
\* drops a line while the client is not connected
client_sent == IF b_connected THEN out.sent ELSE <<>>

b_async_turn_off ==
    /\ b_client # None
    /\ out' = Did("turn_off", <<Call("power_off", None, Nothing)>>)
    /\ UNCHANGED <<config, hassState, a_vars, b_vars>>

b_async_turn_on ==
    /\ b_client # None
    /\ out' = Did("turn_on", <<Call("power_on", None, Nothing)>>)
    /\ UNCHANGED <<config, hassState, a_vars, b_vars>>

\* a step of the whole volume_step
StepVolume_whole_step(op, k) ==
    IF b_volume = Nothing THEN Raised(op)
    ELSE Did(op, <<Call("set_volume", None,
                        Some(Rat(internal_vol_to_nad_vol(b_volume[1])
                                 + k * volume_step, 1)))>>)

\* volume_level is _volume; None * int raises TypeError.  The value set is
\* internal_vol_to_nad_vol(volume_level) + k * volume_step * 0.5
StepVolume(op, k) ==
    IF b_volume = Nothing THEN Raised(op)
    ELSE Did(op, <<Call("set_volume", None,
                        Some(Rat(2 * internal_vol_to_nad_vol(b_volume[1])
                                 + k * volume_step, 2)))>>)

b_async_volume_up ==
    /\ b_client # None
    /\ out' = StepVolume("volume_up", 1)
    /\ UNCHANGED <<config, hassState, a_vars, b_vars>>

b_async_volume_down ==
    /\ b_client # None
    /\ out' = StepVolume("volume_down", -1)
    /\ UNCHANGED <<config, hassState, a_vars, b_vars>>

b_async_set_volume_level(level) ==
    /\ b_client # None
    /\ out' = Did("set_volume_level",
                  <<Call("set_volume", None,
                         Some(Rat(internal_vol_to_nad_vol(level), 1)))>>)
    /\ UNCHANGED <<config, hassState, a_vars, b_vars>>

b_async_mute_volume(mute) ==
    /\ b_client # None
    /\ out' = Did("mute_volume",
                  <<Call(IF mute THEN "mute" ELSE "unmute", None, Nothing)>>)
    /\ UNCHANGED <<config, hassState, a_vars, b_vars>>

b_async_select_source(src) ==
    /\ b_client # None
    /\ out' = Did("select_source", <<Call("select_source", None, Some(src))>>)
    /\ UNCHANGED <<config, hassState, a_vars, b_vars>>

\* ------------------------------------------------------------------ Next
Host ==
    \/ HassStart
    \/ HassStop

Connection ==
    \/ async_added_to_hass
    \/ ConnectStart
    \/ \E i \in 1 .. Len(attempts) : ConnectSucceed(i)
    \/ \E i \in 1 .. Len(attempts), exc \in ConnectErrors : ConnectFail(i, exc)
    \/ \E i \in 1 .. Len(timers) : TimerFire(i)
    \/ \E t \in ConnIds : TransportFail(t)
    \/ \E t \in ConnIds : ConnectionLost(t)
    \/ \E t \in ConnIds : StopListener(t)
    \/ UpdateJob
    \/ Tick

Commands ==
    \/ async_turn_off
    \/ async_turn_on
    \/ async_volume_up
    \/ async_volume_down
    \/ \E level \in Levels : async_set_volume_level(level)
    \/ \E mute \in BOOLEAN : async_mute_volume(mute)
    \/ \E src \in Sources : async_select_source(src)
    \/ UpdateEntity

Messages ==
    \E key \in MessageKeys : \E value \in MessageValues(key) :
        message_received(key, value)

b_Life ==
    \/ b_async_added_to_hass
    \/ b_connect
    \/ b_connect_return
    \/ b_disconnect
    \/ ClientConnected
    \/ ClientDisconnected

b_Commands ==
    \/ b_async_turn_off
    \/ b_async_turn_on
    \/ b_async_volume_up
    \/ b_async_volume_down
    \/ \E level \in Levels : b_async_set_volume_level(level)
    \/ \E mute \in BOOLEAN : b_async_mute_volume(mute)
    \/ \E src \in Sources : b_async_select_source(src)

b_Messages == \E state \in Snapshots : handle_state_changed(state)

Next ==
    \/ Host
    \/ Connection
    \/ Commands
    \/ Messages
    \/ b_Life
    \/ b_Commands
    \/ b_Messages

\* both variants with all their handlers; the retry delay is 0
Init == InitWith({0})

Spec == Init /\ [][Next]_vars

\* the connection logic of the protocol-callback variant under every retry
\* delay of Intervals
InitConn == InitWith(Intervals) /\ variant = "protocol"

NextConn == HassStop \/ Connection

SpecConn == InitConn /\ [][NextConn]_vars

\* the loop runs what is ready and fires the timers that are due, time
\* passes, the library reports a loss, a connection attempt ends (by the
\* connection timeout at the latest), and the amplifier is reachable again
\* and again
FairConn ==
    /\ WF_vars(async_added_to_hass)
    /\ WF_vars(ConnectStart)
    /\ WF_vars(UpdateJob)
    /\ WF_vars(Tick)
    /\ WF_vars(\E i \in 1 .. Len(timers) : TimerFire(i))
    /\ WF_vars(\E t \in ConnIds : ConnectionLost(t))
    /\ WF_vars(\E t \in ConnIds : StopListener(t))
    /\ WF_vars(\E i \in 1 .. Len(attempts) :
                   ConnectSucceed(i) \/ ConnectFail(i, "TimeoutError"))
    /\ SF_vars(\E i \in 1 .. Len(attempts) : ConnectSucceed(i))

LiveConn == SpecConn /\ FairConn

\* the loop runs what is ready and fires the timers that are due, time
\* passes and async_timeout ends an attempt that is CONNECTION_TIMEOUT old;
\* nothing is assumed about the amplifier
FairTimeout ==
    /\ WF_vars(async_added_to_hass)
    /\ WF_vars(ConnectStart)
    /\ WF_vars(UpdateJob)
    /\ WF_vars(Tick)
    /\ WF_vars(\E i \in 1 .. Len(timers) : TimerFire(i))
    /\ WF_vars(\E t \in ConnIds : ConnectionLost(t))
    /\ WF_vars(\E t \in ConnIds : StopListener(t))
    /\ WF_vars(\E i \in 1 .. Len(attempts) : ConnectFail(i, "TimeoutError"))

LiveTimeout == SpecConn /\ FairTimeout

\* the client-library variant as its snapshots drive it: the life cycle of
\* the device and the snapshots it receives (no handler of these reads the
\* volume step)
InitSnap == Init /\ variant = "client" /\ volume_step = 1

NextSnap == Host \/ b_Life \/ b_Messages

SpecSnap == InitSnap /\ [][NextSnap]_vars

\* ---------------------------------------------------------------- claims
Stopping == hassState = "stopping"

\* C1: after a connection attempt failed with a refused connection, a timeout
\* or an OS error, the next attempt starts only once the reconnect interval
\* has elapsed, at most one attempt starts, and unless the host stops one
\* does start.
C1_RetryOnceAfterInterval ==
    /\ [][ConnectStart /\ lastCause = "failed"
              => elapsed >= reconnect_interval /\ attemptsSince = 0]_vars
    /\ [](lastCause = "failed" => attemptsSince <= 1)
    /\ ((lastCause = "failed" /\ attemptsSince = 0)
            ~> (attemptsSince = 1 \/ Stopping))

C1_Witness ==
    /\ lastCause = "failed"
    /\ attemptsSince = 1
    /\ reconnect_interval = 2 * Quantum
    /\ elapsed = reconnect_interval
    /\ Len(attempts) = 1

\* C2: as long as the host is not stopping, every failed attempt and every
\* disconnect is followed by another connection attempt, and, the amplifier
\* being reachable again and again, by a connected client.
C2_RetriesForever ==
    /\ ((lastCause # "none" /\ attemptsSince = 0)
            ~> (attemptsSince > 0 \/ Stopping))
    /\ (lastCause # "none" ~> (is_connected \/ Stopping))

C2_Witness ==
    /\ lastCause = "failed"
    /\ is_connected
    /\ ~Stopping

C4_NoAttemptAfterStop == [][ConnectStart => ~Stopping]_vars

\* C5: at most one reconnect timer is pending, at most one connection
\* attempt is in flight, and never both.
C5_OneTimerOneAttempt ==
    /\ Len(timers) <= 1
    /\ Len(attempts) <= 1
    /\ ~(timers # <<>> /\ attempts # <<>>)

C5_Witness ==
    /\ Len(timers) = 1
    /\ lastCause = "failed"
    /\ timers[1] > 0

\* the stop event has been handled: its listeners ran, the jobs and
\* connection attempts the host waits for are done, losses are reported
ShutdownHandled ==
    /\ Stopping
    /\ pendingClose = {}
    /\ jobs = <<>>
    /\ attempts = <<>>
    /\ closingT = {}

\* C6: after the shutdown has been handled no transport is open and the
\* client is not connected.
C6_ClosedAfterShutdown == ShutdownHandled => (openT = {} /\ ~is_connected)

CommandOps ==
    {"turn_off", "turn_on", "volume_up", "volume_down", "set_volume_level",
     "mute_volume", "select_source", "update"}

Disconnected == IF variant = "protocol" THEN ~is_connected ELSE ~b_connected

\* what reaches the amplifier of the calls the last handler made
Sent == IF variant = "protocol" THEN out.sent ELSE client_sent

\* C7: a command issued while the client is disconnected sends nothing,
\* raises nothing and leaves the stored device state unchanged.
C7_DisconnectedCommandNoOp ==
    [][(out'.op \in CommandOps /\ Disconnected)
           => (Sent' = <<>> /\ ~out'.raised /\ UNCHANGED <<dev, b_dev>>)]_vars

FieldKeys == {MSG_POWER, MSG_VOLUME, MSG_MUTE, MSG_SOURCE}

Stored(key) ==
    IF key = MSG_POWER THEN power
    ELSE IF key = MSG_VOLUME THEN volume
    ELSE IF key = MSG_MUTE THEN muted
    ELSE source

\* the protocol-callback variant: one key, one field, one notification
UpdateSetsOneField ==
    \A key \in FieldKeys : \A value \in MessageValues(key) :
        message_received(key, value)
            => /\ Stored(key)' = value
               /\ \A other \in FieldKeys \ {key} : Stored(other)' = Stored(other)
               /\ out'.notified = 1

b_Stored(key) ==
    IF key = CMD_POWER THEN b_state
    ELSE IF key = CMD_VOLUME THEN b_volume
    ELSE IF key = CMD_MUTE THEN b_muted
    ELSE b_source

\* the value of a key of a snapshot, as the client-library variant stores it
b_Value(state, key) ==
    IF key = CMD_POWER THEN (IF state.power THEN STATE_ON ELSE STATE_OFF)
    ELSE IF key = CMD_VOLUME THEN Some(nad_vol_to_internal_vol(Some(state.volume)))
    ELSE IF key = CMD_MUTE THEN Some(state.mute)
    ELSE state.source

\* the snapshots that carry the one key given
OneKey(key) ==
    LET absent == [keys |-> {key}, power |-> FALSE, volume |-> MinOf(NadVols),
                   mute |-> FALSE, source |-> CHOOSE x \in Sources : TRUE]
    IN  IF key = CMD_POWER THEN {[absent EXCEPT !.power = p] : p \in BOOLEAN}
        ELSE IF key = CMD_VOLUME
             THEN {[absent EXCEPT !.volume = v] : v \in NadVols}
        ELSE IF key = CMD_MUTE THEN {[absent EXCEPT !.mute = m] : m \in BOOLEAN}
        ELSE {[absent EXCEPT !.source = x] : x \in Sources}

C9_OnlyUpdatesChangeState ==
    /\ (variant = "protocol" => dev = <<None, None, Nothing, None>>)
    /\ [][(\E key \in MessageKeys : \E value \in MessageValues(key) :
               message_received(key, value))
          \/ UNCHANGED dev]_vars

C9_Witness ==
    /\ power = MSG_ON
    /\ volume # Nothing
    /\ ~is_connected
    /\ lastCause = "failed"
    /\ attemptsSince = 1

\* C10: a step up from a last known volume at the configured maximum sets a
\* volume that does not exceed the maximum.
C10_StepUpClamps ==
    (variant = "client" /\ out.op = "volume_up" /\ ~out.raised
        /\ b_volume = Some(One))
        => LET v == out.sent[1].val[1] IN v.n <= max_vol * v.d

\* the device volume nearest to nad_vol within the configured range, as the
\* conversion to the internal range and back gives it
Clamped(nad_vol) ==
    IF nad_vol < min_vol THEN min_vol
    ELSE IF nad_vol > max_vol THEN max_vol
    ELSE nad_vol

\* the reported device volumes that the stored volume can stand for
LastKnown ==
    {v \in NadVols :
        /\ ~DivisionByZero(Some(v))
        /\ b_volume = Some(nad_vol_to_internal_vol(Some(v)))}

SetVolume(n, d) == <<Call("set_volume", None, Some(Rat(n, d)))>>

C12_AttemptEnds ==
    /\ (attempts # <<>>) ~> (attempts = <<>>)
    /\ [][\A i \in 1 .. Len(attempts) :
              ConnectFail(i, "TimeoutError")
                  => /\ attempts[i] >= CONNECTION_TIMEOUT
                     /\ ConnectFail(i, "ConnectionRefusedError")
                     /\ timers' = <<Max(reconnect_interval, 0)>>
                     /\ lastCause' = "failed"]_vars

C12_Witness ==
    /\ attempts = <<CONNECTION_TIMEOUT>>
    /\ lastCause = "failed"
    /\ ~Stopping

\* C13: the device holds a protocol reference only to a transport that a
\* successful attempt established and whose loss has not been reported; it
\* becomes connected only by an attempt that succeeds while it is
\* disconnected, stays with the same protocol while connected, and becomes
\* disconnected only by a disconnect notification.
C13_ConnectionStateOrder ==
    /\ [](is_connected => protocol[1] \in openT \cup closingT)
    /\ [][/\ (~is_connected /\ is_connected')
                 => \E i \in 1 .. Len(attempts) : ConnectSucceed(i)
          /\ (is_connected /\ is_connected') => protocol' = protocol
          /\ (is_connected /\ ~is_connected')
                 => \E t \in ConnIds : ConnectionLost(t)
          /\ (\E i \in 1 .. Len(attempts) : ConnectSucceed(i))
                 => ~is_connected]_vars

C13_Witness ==
    /\ is_connected
    /\ openT = {protocol[1]}
    /\ lastCause = "lost"
    /\ attemptsSince = 1

\* ------------------- exposed properties, protocol-callback variant
\* a state property that reports the stored power whatever the connection
state_of_stored_power == IF power = MSG_ON THEN STATE_ON ELSE STATE_OFF

\* NADDevice.state
state ==
    IF is_connected
    THEN (IF power = MSG_ON THEN STATE_ON ELSE STATE_OFF)
    ELSE STATE_OFF

\* what the protocol's get_available_sources() returns
get_available_sources == <<"BT">>

\* NADDevice.source_list
source_list == IF is_connected THEN get_available_sources ELSE <<>>

\* NADDevice.is_volume_muted
is_volume_muted == IF is_connected THEN muted = MSG_ON ELSE FALSE

\* C14: in the protocol-callback variant a disconnected device exposes state
\* OFF, mute False and an empty source list whatever is stored; a connected
\* one exposes ON exactly when the stored power is the ON token, else OFF.
C14_ExposedState ==
    variant = "protocol" =>
        /\ ~is_connected =>
               /\ state = STATE_OFF
               /\ is_volume_muted = FALSE
               /\ source_list = <<>>
        /\ is_connected =>
               /\ state \in {STATE_ON, STATE_OFF}
               /\ state = STATE_ON <=> power = MSG_ON

C14_Witness ==
    /\ variant = "protocol"
    /\ ~is_connected
    /\ power = MSG_ON
    /\ muted = MSG_ON
    /\ state = STATE_OFF

QueryAll == <<Call("get_value", MSG_MAIN, Nothing)>>

\* C15: a connection attempt that succeeds schedules one query of all
\* main-zone values, one that fails schedules none, and the scheduled query
\* is sent if and only if the device is connected when the job runs.
C15_QueryAfterConnect ==
    [][/\ \A i \in 1 .. Len(attempts) :
              ConnectSucceed(i) => jobs' = Append(jobs, "update")
       /\ \A i \in 1 .. Len(attempts) : \A exc \in ConnectErrors :
              ConnectFail(i, exc) => jobs' = jobs
       /\ UpdateJob
              => out'.sent = IF is_connected THEN QueryAll ELSE <<>>]_vars

C15_Witness ==
    /\ out.op = "update"
    /\ out.sent = <<>>
    /\ lastCause = "lost"
    /\ attemptsSince = 0

\* C16: in the client-library variant the client's connect() is called once
\* per device, at once when the device is added to a running host and
\* otherwise when the start listener runs; the client's disconnect() is
\* called at most once and only after connect() has returned.
C16_ConnectOnceDisconnectAfter ==
    /\ [](/\ b_calls.connect <= 1
          /\ b_calls.disconnect <= 1
          /\ b_calls.disconnect = 1 => (b_calls.connect = 1 /\ ~b_connecting)
          /\ (b_client # None /\ hassState = "not_running")
                 => b_calls.connect = 0
          /\ (b_client # None /\ hassState # "not_running"
                 /\ "start" \notin b_pending) => b_calls.connect = 1)
    /\ [][/\ b_calls'.connect # b_calls.connect
                 => \/ b_async_added_to_hass /\ hassState = "running"
                    \/ b_connect /\ hassState # "not_running"
          /\ b_calls'.disconnect # b_calls.disconnect
                 => b_disconnect /\ Stopping /\ ~b_connecting]_vars

C16_Witness ==
    /\ variant = "client"
    /\ b_calls.connect = 1
    /\ b_calls.disconnect = 1
    /\ b_listeners = {}
    /\ b_pending = {}

\* C17: for every configured min_volume and max_volume and every reported
\* volume the volume normalisation raises nothing and gives a value within
\* 0..1.
C17_NormalisationTotal ==
    (variant = "client" /\ out.op = "handle_state_changed")
        => /\ ~out.raised
           /\ b_volume # Nothing
                  => /\ 0 <= b_volume[1].n
                     /\ b_volume[1].n <= b_volume[1].d

\* the snapshots that carry the keys given
Carrying(keys) ==
    {[keys |-> keys, power |-> p, volume |-> v, mute |-> m, source |-> x] :
        p \in IF CMD_POWER \in keys THEN BOOLEAN ELSE {FALSE},
        v \in IF CMD_VOLUME \in keys THEN NadVols ELSE {MinOf(NadVols)},
        m \in IF CMD_MUTE \in keys THEN BOOLEAN ELSE {FALSE},
        x \in IF CMD_SOURCE \in keys THEN Sources
              ELSE {CHOOSE y \in Sources : TRUE}}

\* C18: in the client-library variant handling a snapshot sets the power
\* state to ON for a true power value, OFF for a false one and UNKNOWN for
\* a snapshot without a power key; volume, mute and source keep their value
\* for every key the snapshot lacks and, unless the volume conversion
\* raises, take the snapshot's value for every key it carries.
C18_SnapshotHandling ==
    [][\A keys \in SUBSET CmdKeys : \A s \in Carrying(keys) :
           handle_state_changed(s)
               => /\ b_state' = IF CMD_POWER \notin s.keys THEN STATE_UNKNOWN
                                ELSE IF s.power THEN STATE_ON ELSE STATE_OFF
                  /\ \A key \in CmdKeys \ ({CMD_POWER} \cup s.keys) :
                         b_Stored(key)' = b_Stored(key)
                  /\ ~out'.raised =>
                         \A key \in s.keys \ {CMD_POWER} :
                             b_Stored(key)' = b_Value(s, key)]_vars

C18_Witness ==
    /\ variant = "client"
    /\ out.op = "handle_state_changed"
    /\ ~out.raised
    /\ b_state = STATE_UNKNOWN
    /\ b_volume = Some(One)
    /\ b_muted = Some(TRUE)
    /\ b_source = None

====
